---- MODULE Spec2Model ----
(***************************************************************************)
(* Model of ui/dissect_opts.c (Wireshark): the dissection-option           *)
(* dispatcher dissect_opts_handle_opt, the configuration record            *)
(* global_dissect_options and the deferred application of the four         *)
(* protocol name lists by setup_enabled_and_disabled_protocols.            *)
(*                                                                         *)
(* A C string is a sequence of one-character strings; the terminating NUL  *)
(* is implicit at index Len+1.  A char* is an index into its buffer        *)
(* (optarg_str_p is index 1) and 0 stands for NULL.  The name lists hold   *)
(* pointers: addresses into mem, the caller's argument storage.            *)
(***************************************************************************)
EXTENDS Integers, Sequences, FiniteSets, TLC

VARIABLES
    time_format,            \* global_dissect_options.time_format
    time_precision,         \* global_dissect_options.time_precision
    disable_protocol_slist, \* GSList of char* (addresses into mem)
    enable_protocol_slist,
    enable_heur_slist,
    disable_heur_slist,
    mem,                    \* caller-owned argument storage, by address
    seconds_type,           \* epan/timestamp.c state set by timestamp_set_seconds_type
    proto_enabled,          \* registry: protocol name -> dissection enabled
    heur_enabled,           \* registry: protocol name -> heuristic dissection enabled
    reg_calls,              \* registry calls issued by the last apply, in order
    cmd,                    \* the last call: function, option, argument on entry/return, result, errors
    hist,                   \* the name-list dispatcher calls made so far, in call order
    ncalls,                 \* number of dispatcher calls made
    napply,                 \* number of apply calls made
    aborted                 \* ws_assert_not_reached() was hit

vars == <<time_format, time_precision, disable_protocol_slist,
          enable_protocol_slist, enable_heur_slist, disable_heur_slist, mem,
          seconds_type, proto_enabled, heur_enabled, reg_calls, cmd, hist,
          ncalls, napply, aborted>>

lists == <<disable_protocol_slist, enable_protocol_slist, enable_heur_slist,
           disable_heur_slist, mem, hist>>
registry == <<proto_enabled, heur_enabled, reg_calls>>
timecfg == <<time_format, time_precision>>

----------------------------------------------------------------------------
(* Bounds *)

MaxCalls == 3     \* dispatcher calls in one run
MaxApply == 2     \* calls of setup_enabled_and_disabled_protocols in one run
MaxTsCalls == 2   \* dispatcher calls in a run of -t options alone
MaxCallerCalls == 2   \* name options in a run with a caller that rewrites its storage

----------------------------------------------------------------------------
(* C strings *)

NUL == "NUL"

\* The character at pointer p of buf; index Len+1 holds the terminator.
CharAt(buf, p) == IF p >= 1 /\ p <= Len(buf) THEN buf[p] ELSE NUL

\* The number of characters from pointer p up to the first NUL.
RECURSIVE ScanToNul(_, _)
ScanToNul(buf, p) ==
    IF CharAt(buf, p) = NUL THEN 0 ELSE 1 + ScanToNul(buf, p + 1)

\* strlen: characters before the first NUL.
strlen(buf) == ScanToNul(buf, 1)

\* The string a char* to the start of buf denotes (what "%s" and strcmp see).
CStr(buf) == SubSeq(buf, 1, strlen(buf))

\* strchr(s, c): pointer to the first c in the string, NULL (0) when absent.
RECURSIVE strchrFrom(_, _, _)
strchrFrom(buf, p, c) ==
    IF CharAt(buf, p) = c THEN p
    ELSE IF CharAt(buf, p) = NUL THEN 0
    ELSE strchrFrom(buf, p + 1, c)

strchr(buf, c) == strchrFrom(buf, 1, c)

\* strcmp(a, b) == 0 for strings already read out of their buffers
StrEq(a, b) == a = b

\* *p = c
Poke(buf, p, c) == [buf EXCEPT ![p] = c]

----------------------------------------------------------------------------
(* case 't': the time stamp type parser *)

\* PrecSwitch without the case '\0': a dot with nothing after it is
\* rejected like any other non-digit.
PrecSwitchNoAbsent(c) ==
    CASE c = "0" -> "TS_PREC_FIXED_SEC"
      [] c = "1" -> "TS_PREC_FIXED_DSEC"
      [] c = "2" -> "TS_PREC_FIXED_CSEC"
      [] c = "3" -> "TS_PREC_FIXED_MSEC"
      [] c = "6" -> "TS_PREC_FIXED_USEC"
      [] c = "9" -> "TS_PREC_FIXED_NSEC"
      [] OTHER   -> "default"

\* The switch(*++p) on the character after the dot: the precision it
\* selects, or "default" for the default: branch (which leaves tsp at
\* TS_PREC_NOT_SET and clears dotp).
PrecSwitch(c) ==
    CASE c = NUL -> "TS_PREC_AUTO"
      [] c = "0" -> "TS_PREC_FIXED_SEC"
      [] c = "1" -> "TS_PREC_FIXED_DSEC"
      [] c = "2" -> "TS_PREC_FIXED_CSEC"
      [] c = "3" -> "TS_PREC_FIXED_MSEC"
      [] c = "6" -> "TS_PREC_FIXED_USEC"
      [] c = "9" -> "TS_PREC_FIXED_NSEC"
      [] OTHER   -> "default"

\* TypeFormat with the results of "d" and "dd" exchanged.
TypeFormatSwapped(buf) ==
    LET s == CStr(buf)
    IN  IF s = <<"r">> THEN "TS_RELATIVE"
        ELSE IF s = <<"a">> THEN "TS_ABSOLUTE"
        ELSE IF s = <<"a", "d">> THEN "TS_ABSOLUTE_WITH_YMD"
        ELSE IF s = <<"a", "d", "o", "y">> THEN "TS_ABSOLUTE_WITH_YDOY"
        ELSE IF s = <<"d">> THEN "TS_DELTA_DIS"
        ELSE IF s = <<"d", "d">> THEN "TS_DELTA"
        ELSE IF s = <<"e">> THEN "TS_EPOCH"
        ELSE IF s = <<"u">> THEN "TS_UTC"
        ELSE IF s = <<"u", "d">> THEN "TS_UTC_WITH_YMD"
        ELSE IF s = <<"u", "d", "o", "y">> THEN "TS_UTC_WITH_YDOY"
        ELSE "none"

\* The strcmp chain: the format the (masked) argument names, "none" when
\* no comparison matches.
TypeFormat(buf) ==
    LET s == CStr(buf)
    IN  IF StrEq(s, <<"r">>) THEN "TS_RELATIVE"
        ELSE IF StrEq(s, <<"a">>) THEN "TS_ABSOLUTE"
        ELSE IF StrEq(s, <<"a", "d">>) THEN "TS_ABSOLUTE_WITH_YMD"
        ELSE IF StrEq(s, <<"a", "d", "o", "y">>) THEN "TS_ABSOLUTE_WITH_YDOY"
        ELSE IF StrEq(s, <<"d">>) THEN "TS_DELTA"
        ELSE IF StrEq(s, <<"d", "d">>) THEN "TS_DELTA_DIS"
        ELSE IF StrEq(s, <<"e">>) THEN "TS_EPOCH"
        ELSE IF StrEq(s, <<"u">>) THEN "TS_UTC"
        ELSE IF StrEq(s, <<"u", "d">>) THEN "TS_UTC_WITH_YMD"
        ELSE IF StrEq(s, <<"u", "d", "o", "y">>) THEN "TS_UTC_WITH_YDOY"
        ELSE "none"

\* DotAfterChecks without the test that nothing follows the digit.
DotAfterChecksNoLength(buf, dotp) ==
    IF PrecSwitch(CharAt(buf, dotp + 1)) = "default" THEN 0 ELSE dotp

\* dotp after the switch and after the "only '.' or a single digit" test.
DotAfterChecks(buf, dotp) ==
    LET p    == dotp + 1
        sw   == PrecSwitch(CharAt(buf, p))
        d1   == IF sw = "default" THEN 0 ELSE dotp
        d2   == IF d1 # 0 /\ CharAt(buf, p) # NUL /\ CharAt(buf, p + 1) # NUL
                THEN 0 ELSE d1
    IN  d2

\* TypeMismatchIsError without the exception for a precision-only argument.
TypeMismatchAlways(dotp) == TRUE

\* Whether a failed type comparison is an error: optarg_str_p != dotp.
TypeMismatchIsError(dotp) == 1 # dotp

\* tsp after the switch: the selected precision, TS_PREC_NOT_SET when
\* there is no dot or the default: branch was taken.
TspOf(buf, dotp) ==
    IF dotp # 0 /\ PrecSwitch(CharAt(buf, dotp + 1)) # "default"
    THEN PrecSwitch(CharAt(buf, dotp + 1))
    ELSE "TS_PREC_NOT_SET"

\* StorePrecision without the if (dotp): tsp is stored on every success.
StorePrecisionAlways(dotp, tsp, prec) == tsp

\* if (dotp) { *dotp = '.'; time_precision = tsp; }: the precision the
\* call leaves behind.
StorePrecision(dotp, tsp, prec) == IF dotp # 0 THEN tsp ELSE prec

\* TsPrecisionError clearing the configured format and precision on the
\* way out.
TsPrecisionErrorResets(buf, fmt, prec) ==
    [ret |-> FALSE, fmt |-> "TS_NOT_SET", prec |-> "TS_PREC_NOT_SET", buf |-> buf,
     err |-> <<[msg |-> "Invalid .N time stamp precision", arg |-> CStr(buf)]>>]

\* The return on a precision that is not '.' or '.N': nothing was written.
TsPrecisionError(buf, fmt, prec) ==
    [ret |-> FALSE, fmt |-> fmt, prec |-> prec, buf |-> buf,
     err |-> <<[msg |-> "Invalid .N time stamp precision", arg |-> CStr(buf)]>>]

\* TsTypeError reporting before the dot is put back: the error cites the
\* argument as strcmp saw it, cut at the masked dot.
TsTypeErrorCitesMasked(masked, fmt, prec, dotp, tsp) ==
    LET unmask == IF dotp # 0 THEN Poke(masked, dotp, ".") ELSE masked
    IN  [ret |-> FALSE, fmt |-> fmt, prec |-> prec, buf |-> unmask,
         err |-> <<[msg |-> "Invalid time stamp type", arg |-> CStr(masked)]>>]

\* TsTypeError returning without putting the dot back.
TsTypeErrorNoRestore(masked, fmt, prec, dotp, tsp) ==
    [ret |-> FALSE, fmt |-> fmt, prec |-> prec, buf |-> masked,
     err |-> <<[msg |-> "Invalid time stamp type", arg |-> CStr(masked)]>>]

\* TsTypeError with the precision stored before the type was checked.
TsTypeErrorStoresPrec(masked, fmt, prec, dotp, tsp) ==
    LET unmask == IF dotp # 0 THEN Poke(masked, dotp, ".") ELSE masked
    IN  [ret |-> FALSE, fmt |-> fmt,
         prec |-> IF dotp # 0 THEN tsp ELSE prec, buf |-> unmask,
         err |-> <<[msg |-> "Invalid time stamp type", arg |-> CStr(unmask)]>>]

\* The return on a type that matches no strcmp: the dot is put back, the
\* error cites the argument, the configuration is as it was.
TsTypeError(masked, fmt, prec, dotp, tsp) ==
    LET unmask == IF dotp # 0 THEN Poke(masked, dotp, ".") ELSE masked
    IN  [ret |-> FALSE, fmt |-> fmt, prec |-> prec, buf |-> unmask,
         err |-> <<[msg |-> "Invalid time stamp type", arg |-> CStr(unmask)]>>]

\* The whole case 't' on argument buffer buf with the configuration
\* (fmt, prec): the result, the new configuration, the buffer on return
\* and the argument text handed to cmdarg_err.
HandleTs(buf, fmt, prec) ==
    LET dotp0 == strchr(buf, ".")
        tsp   == TspOf(buf, dotp0)
        dotp  == IF dotp0 # 0 THEN DotAfterChecks(buf, dotp0) ELSE 0
    IN  IF dotp0 # 0 /\ dotp = 0
        THEN TsPrecisionError(buf, fmt, prec)
        ELSE
          LET masked == IF dotp # 0 THEN Poke(buf, dotp, NUL) ELSE buf
              tf     == TypeFormat(masked)
          IN  IF tf = "none" /\ TypeMismatchIsError(dotp)
              THEN TsTypeError(masked, fmt, prec, dotp, tsp)
              ELSE [ret  |-> TRUE,
                    fmt  |-> IF tf # "none" THEN tf ELSE fmt,
                    prec |-> StorePrecision(dotp, tsp, prec),
                    buf  |-> IF dotp # 0 THEN Poke(masked, dotp, ".") ELSE masked,
                    err  |-> <<>>]

----------------------------------------------------------------------------
(* The protocol registry (epan/proto.c, epan/disabled_protos.c): external  *)
(* to dissect_opts.c, modelled from its contract.                          *)

tcp  == <<"t", "c", "p">>      \* a protocol enabled by default
udp  == <<"u", "d", "p">>      \* a protocol disabled by default
nope == <<"n", "o">>           \* not a registered protocol

Known == {tcp, udp}
Names == Known \cup {nope}

\* proto_disable_proto_by_name: a known protocol is disabled, an unknown
\* name is accepted silently.
proto_disable_proto_by_name(name, proto) ==
    IF name \in Known THEN [proto EXCEPT ![name] = FALSE] ELSE proto

\* proto_enable_proto_by_name: a known protocol is enabled, an unknown
\* name is accepted silently.
proto_enable_proto_by_name(name, proto) ==
    IF name \in Known THEN [proto EXCEPT ![name] = TRUE] ELSE proto

\* proto_enable_heuristic_by_name(name, enable): false for an unknown name.
proto_enable_heuristic_by_name(name, enable, heur) ==
    IF name \in Known
    THEN [ret |-> TRUE, heur |-> [heur EXCEPT ![name] = enable]]
    ELSE [ret |-> FALSE, heur |-> heur]

\* string_to_name_resolve: the first character that is not a resolving
\* option, '\0' when every character is one.
string_to_name_resolve(buf) ==
    LET ok  == {"d", "m", "n", "N", "t", "v"}
        s   == CStr(buf)
        bad == {i \in 1..Len(s) : s[i] \notin ok}
    IN  IF bad = {} THEN NUL
        ELSE s[CHOOSE i \in bad : \A j \in bad : i <= j]

----------------------------------------------------------------------------
(* GSList *)

\* g_slist_prepend in the place of g_slist_append.
g_slist_prepend(list, data) == <<data>> \o list

g_slist_append(list, data) == Append(list, data)

\* The strings a list of pointers denotes in storage m.
Deref(list, m) == [i \in 1..Len(list) |-> CStr(m[list[i]])]

----------------------------------------------------------------------------
(* setup_enabled_and_disabled_protocols: the four loops.  Each threads the *)
(* running state st = [proto, heur, calls, success, err] through a list,   *)
(* one registry call per node, following g_slist_next.                     *)

\* DisableProtoLoop passing the data of the list head on every iteration
\* in the place of the data of the current node.
RECURSIVE DisableProtoLoopHeadFrom(_, _, _, _)
DisableProtoLoopHeadFrom(head, list, m, st) ==
    IF list = <<>> THEN st
    ELSE LET name == CStr(m[head])
         IN  DisableProtoLoopHeadFrom(head, Tail(list), m,
                [st EXCEPT
                   !.proto = proto_disable_proto_by_name(name, st.proto),
                   !.calls = Append(st.calls,
                       [fn |-> "proto_disable_proto_by_name",
                        name |-> name, ret |-> TRUE])])

DisableProtoLoopHead(list, m, st) ==
    IF list = <<>> THEN st ELSE DisableProtoLoopHeadFrom(Head(list), list, m, st)

RECURSIVE DisableProtoLoop(_, _, _)
DisableProtoLoop(list, m, st) ==
    IF list = <<>> THEN st
    ELSE LET name == CStr(m[Head(list)])
         IN  DisableProtoLoop(Tail(list), m,
                [st EXCEPT
                   !.proto = proto_disable_proto_by_name(name, st.proto),
                   !.calls = Append(st.calls,
                       [fn |-> "proto_disable_proto_by_name",
                        name |-> name, ret |-> TRUE])])

\* EnableProtoLoop walking the list from its last node to its first.
RECURSIVE EnableProtoLoopReverse(_, _, _)
EnableProtoLoopReverse(list, m, st) ==
    IF list = <<>> THEN st
    ELSE LET name == CStr(m[Head(list)])
             st1  == EnableProtoLoopReverse(Tail(list), m, st)
         IN  [st1 EXCEPT
                !.proto = proto_enable_proto_by_name(name, st1.proto),
                !.calls = Append(st1.calls,
                    [fn |-> "proto_enable_proto_by_name",
                     name |-> name, ret |-> TRUE])]

RECURSIVE EnableProtoLoop(_, _, _)
EnableProtoLoop(list, m, st) ==
    IF list = <<>> THEN st
    ELSE LET name == CStr(m[Head(list)])
         IN  EnableProtoLoop(Tail(list), m,
                [st EXCEPT
                   !.proto = proto_enable_proto_by_name(name, st.proto),
                   !.calls = Append(st.calls,
                       [fn |-> "proto_enable_proto_by_name",
                        name |-> name, ret |-> TRUE])])

\* EnableHeurStep with success = <result of this call>: a later good name
\* clears an earlier failure.
EnableHeurStepOverwrite(name, st) ==
    LET r == proto_enable_heuristic_by_name(name, TRUE, st.heur)
    IN  [st EXCEPT
           !.heur = r.heur,
           !.calls = Append(st.calls,
               [fn |-> "proto_enable_heuristic_by_name(TRUE)",
                name |-> name, ret |-> r.ret]),
           !.success = r.ret,
           !.err = IF r.ret THEN st.err
                   ELSE Append(st.err, [msg |-> "No such protocol, can't enable",
                                        arg |-> name])]

\* One iteration of the enable-heuristic loop body.
EnableHeurStep(name, st) ==
    LET r == proto_enable_heuristic_by_name(name, TRUE, st.heur)
    IN  [st EXCEPT
           !.heur = r.heur,
           !.calls = Append(st.calls,
               [fn |-> "proto_enable_heuristic_by_name(TRUE)",
                name |-> name, ret |-> r.ret]),
           !.success = IF r.ret THEN st.success ELSE FALSE,
           !.err = IF r.ret THEN st.err
                   ELSE Append(st.err, [msg |-> "No such protocol, can't enable",
                                        arg |-> name])]

\* DisableHeurStep that also counts as a failure a call that found the
\* heuristics of the name disabled already.
DisableHeurStepChanged(name, st) ==
    LET r == proto_enable_heuristic_by_name(name, FALSE, st.heur)
        ok == r.ret /\ r.heur # st.heur
    IN  [st EXCEPT
           !.heur = r.heur,
           !.calls = Append(st.calls,
               [fn |-> "proto_enable_heuristic_by_name(FALSE)",
                name |-> name, ret |-> r.ret]),
           !.success = IF ok THEN st.success ELSE FALSE,
           !.err = IF ok THEN st.err
                   ELSE Append(st.err, [msg |-> "No such protocol, can't disable",
                                        arg |-> name])]

\* One iteration of the disable-heuristic loop body.
DisableHeurStep(name, st) ==
    LET r == proto_enable_heuristic_by_name(name, FALSE, st.heur)
    IN  [st EXCEPT
           !.heur = r.heur,
           !.calls = Append(st.calls,
               [fn |-> "proto_enable_heuristic_by_name(FALSE)",
                name |-> name, ret |-> r.ret]),
           !.success = IF r.ret THEN st.success ELSE FALSE,
           !.err = IF r.ret THEN st.err
                   ELSE Append(st.err, [msg |-> "No such protocol, can't disable",
                                        arg |-> name])]

\* EnableHeurLoop leaving the loop at the first name the registry refuses.
RECURSIVE EnableHeurLoopBreak(_, _, _)
EnableHeurLoopBreak(list, m, st) ==
    IF list = <<>> THEN st
    ELSE LET st1 == EnableHeurStep(CStr(m[Head(list)]), st)
         IN  IF st1.success
             THEN EnableHeurLoopBreak(Tail(list), m, st1)
             ELSE st1

RECURSIVE EnableHeurLoop(_, _, _)
EnableHeurLoop(list, m, st) ==
    IF list = <<>> THEN st
    ELSE EnableHeurLoop(Tail(list), m, EnableHeurStep(CStr(m[Head(list)]), st))

RECURSIVE DisableHeurLoop(_, _, _)
DisableHeurLoop(list, m, st) ==
    IF list = <<>> THEN st
    ELSE DisableHeurLoop(Tail(list), m, DisableHeurStep(CStr(m[Head(list)]), st))

\* SetupResult with the disable-heuristic loop ahead of the
\* enable-heuristic loop.
SetupResultDisableHeurFirst(dp, ep, eh, dh, m, proto, heur) ==
    LET st0 == [proto |-> proto, heur |-> heur, calls |-> <<>>,
                success |-> TRUE, err |-> <<>>]
        st1 == IF dp # <<>> THEN DisableProtoLoop(dp, m, st0) ELSE st0
        st2 == IF ep # <<>> THEN EnableProtoLoop(ep, m, st1) ELSE st1
        st3 == IF dh # <<>> THEN DisableHeurLoop(dh, m, st2) ELSE st2
        st4 == IF eh # <<>> THEN EnableHeurLoop(eh, m, st3) ELSE st3
    IN  st4

\* SetupResult with the enable-protocol loop ahead of the disable-protocol
\* loop.
SetupResultEnableFirst(dp, ep, eh, dh, m, proto, heur) ==
    LET st0 == [proto |-> proto, heur |-> heur, calls |-> <<>>,
                success |-> TRUE, err |-> <<>>]
        st1 == IF ep # <<>> THEN EnableProtoLoop(ep, m, st0) ELSE st0
        st2 == IF dp # <<>> THEN DisableProtoLoop(dp, m, st1) ELSE st1
        st3 == IF eh # <<>> THEN EnableHeurLoop(eh, m, st2) ELSE st2
        st4 == IF dh # <<>> THEN DisableHeurLoop(dh, m, st3) ELSE st3
    IN  st4

\* The body of setup_enabled_and_disabled_protocols, in source order.
SetupResult(dp, ep, eh, dh, m, proto, heur) ==
    LET st0 == [proto |-> proto, heur |-> heur, calls |-> <<>>,
                success |-> TRUE, err |-> <<>>]
        st1 == IF dp # <<>> THEN DisableProtoLoop(dp, m, st0) ELSE st0
        st2 == IF ep # <<>> THEN EnableProtoLoop(ep, m, st1) ELSE st1
        st3 == IF eh # <<>> THEN EnableHeurLoop(eh, m, st2) ELSE st2
        st4 == IF dh # <<>> THEN DisableHeurLoop(dh, m, st3) ELSE st3
    IN  st4

----------------------------------------------------------------------------
(* Arguments *)

\* What precedes the first dot of a -t argument: the ten types, nothing,
\* and strings that are no type (wrong case, a type with a letter more).
TsPrefixes ==
    { <<"r">>, <<"a">>, <<"a", "d">>, <<"a", "d", "o", "y">>, <<"d">>,
      <<"d", "d">>, <<"e">>, <<"u">>, <<"u", "d">>, <<"u", "d", "o", "y">>,
      <<>>,
      <<"x", "y", "z">>, <<"R">>, <<"a", "d", "d">>,
      <<"b", "o", "g", "u", "s">> }

\* What follows the prefix: no dot, a dot alone, a dot and a digit, and
\* dots followed by something else or by more than one character.
TsSuffixes ==
    { <<>>, <<".">>,
      <<".", "0">>, <<".", "1">>, <<".", "2">>, <<".", "3">>, <<".", "6">>,
      <<".", "9">>,
      <<".", "5">>, <<".", "x">>, <<".", ".">>,
      <<".", "9", "9">>, <<".", "3", "x">>, <<".", "3", ".">> }

TsArgs == {p \o x : p \in TsPrefixes, x \in TsSuffixes}

\* The -t arguments of the full command line runs.
TsArgsSmall ==
    { <<"r">>, <<"a", ".", "3">>, <<".", "0">>, <<"b", "o", "g", "u", "s", ".", "3">> }

SecArgs  == { <<"s">>, <<"h", "m", "s">>, <<"h", "m">> }
\* The -u arguments of the runs about the seconds type: the two accepted
\* ones, the empty string, and near misses of each.
SecArgsAll ==
    { <<"s">>, <<"h", "m", "s">>, <<>>, <<"S">>, <<"s", "s">>, <<"h">>,
      <<"h", "m">>, <<"h", "m", "s", "x">>, <<"H", "M", "S">>, <<"m", "s">> }

ResArgs  == { <<"m", "n">>, <<"m", "x">> }
Opaque   == <<"x">>

----------------------------------------------------------------------------
(* State after dissect_opts_init, with the registry at its defaults. *)

Init ==
    /\ time_format = "TS_NOT_SET"
    /\ time_precision = "TS_PREC_NOT_SET"
    /\ disable_protocol_slist = <<>>
    /\ enable_protocol_slist = <<>>
    /\ enable_heur_slist = <<>>
    /\ disable_heur_slist = <<>>
    /\ mem = <<>>
    /\ seconds_type = "TS_SECONDS_NOT_SET"
    /\ proto_enabled = [n \in Known |-> n = tcp]
    /\ heur_enabled = [n \in Known |-> n = tcp]
    /\ reg_calls = <<>>
    /\ cmd = [fn |-> "dissect_opts_init", opt |-> "", arg_in |-> <<>>,
              arg_out |-> <<>>, returned |-> TRUE, ret |-> TRUE, err |-> <<>>]
    /\ hist = <<>>
    /\ ncalls = 0
    /\ napply = 0
    /\ aborted = FALSE

----------------------------------------------------------------------------
(* dissect_opts_handle_opt, one action per case of the switch.  The        *)
(* dispatcher runs while arguments are scanned, before the apply phase.    *)

CanDispatch == ~aborted /\ napply = 0 /\ ncalls < MaxCalls

\* The record of a dispatcher call that returned.
Returned(opt, arg, out, ret, err) ==
    [fn |-> "dissect_opts_handle_opt", opt |-> opt, arg_in |-> arg,
     arg_out |-> out, returned |-> TRUE, ret |-> ret, err |-> err]

\* case 'd': the result is decode_as_command_option's.
HandleOpt_d(arg) ==
    /\ CanDispatch
    /\ \E ok \in BOOLEAN :
          cmd' = Returned("d", arg, arg, ok, <<>>)
    /\ ncalls' = ncalls + 1
    /\ UNCHANGED <<timecfg, lists, seconds_type, registry, napply, aborted>>

\* case 'K': succeeds in a build with Kerberos, fails in one without.
HandleOpt_K(arg) ==
    /\ CanDispatch
    /\ \E have_kerberos \in BOOLEAN :
          cmd' = Returned("K", arg, arg, have_kerberos,
                    IF have_kerberos THEN <<>>
                    ELSE <<[msg |-> "-K specified, but Kerberos keytab file support isn't present",
                            arg |-> <<>>]>>)
    /\ ncalls' = ncalls + 1
    /\ UNCHANGED <<timecfg, lists, seconds_type, registry, napply, aborted>>

\* case 'n'
HandleOpt_n ==
    /\ CanDispatch
    /\ cmd' = Returned("n", <<>>, <<>>, TRUE, <<>>)
    /\ ncalls' = ncalls + 1
    /\ UNCHANGED <<timecfg, lists, seconds_type, registry, napply, aborted>>

\* case 'N'
HandleOpt_N(arg) ==
    /\ CanDispatch
    /\ \E badopt \in {string_to_name_resolve(arg)} :
           cmd' = Returned("N", arg, arg, badopt = NUL,
                     IF badopt # NUL
                     THEN <<[msg |-> "-N specifies unknown resolving option",
                             arg |-> <<badopt>>]>>
                     ELSE <<>>)
    /\ ncalls' = ncalls + 1
    /\ UNCHANGED <<timecfg, lists, seconds_type, registry, napply, aborted>>

\* case 't'
HandleOpt_t(arg) ==
    /\ CanDispatch
    /\ \E r \in {HandleTs(arg, time_format, time_precision)} :
           /\ time_format' = r.fmt
           /\ time_precision' = r.prec
           /\ cmd' = Returned("t", arg, r.buf, r.ret, r.err)
    /\ ncalls' = ncalls + 1
    /\ UNCHANGED <<lists, seconds_type, registry, napply, aborted>>

\* case 'u' comparing the first character only.
HandleOpt_uFirstChar(arg) ==
    /\ CanDispatch
    /\ IF arg # <<>> /\ arg[1] = "s"
       THEN /\ seconds_type' = "TS_SECONDS_DEFAULT"
            /\ cmd' = Returned("u", arg, arg, TRUE, <<>>)
       ELSE IF arg # <<>> /\ arg[1] = "h"
       THEN /\ seconds_type' = "TS_SECONDS_HOUR_MIN_SEC"
            /\ cmd' = Returned("u", arg, arg, TRUE, <<>>)
       ELSE /\ seconds_type' = seconds_type
            /\ cmd' = Returned("u", arg, arg, FALSE,
                         <<[msg |-> "Invalid seconds type", arg |-> CStr(arg)]>>)
    /\ ncalls' = ncalls + 1
    /\ UNCHANGED <<timecfg, lists, registry, napply, aborted>>

\* case 'u'
HandleOpt_u(arg) ==
    /\ CanDispatch
    /\ IF StrEq(CStr(arg), <<"s">>)
       THEN /\ seconds_type' = "TS_SECONDS_DEFAULT"
            /\ cmd' = Returned("u", arg, arg, TRUE, <<>>)
       ELSE IF StrEq(CStr(arg), <<"h", "m", "s">>)
       THEN /\ seconds_type' = "TS_SECONDS_HOUR_MIN_SEC"
            /\ cmd' = Returned("u", arg, arg, TRUE, <<>>)
       ELSE /\ seconds_type' = seconds_type
            /\ cmd' = Returned("u", arg, arg, FALSE,
                         <<[msg |-> "Invalid seconds type", arg |-> CStr(arg)]>>)
    /\ ncalls' = ncalls + 1
    /\ UNCHANGED <<timecfg, lists, registry, napply, aborted>>

\* The list a name option appends to, as the four cases of the switch
\* select it.
ListOf(opt) ==
    CASE opt = "LONGOPT_DISABLE_PROTOCOL"  -> "disable_protocol_slist"
      [] opt = "LONGOPT_ENABLE_HEURISTIC"  -> "enable_heur_slist"
      [] opt = "LONGOPT_DISABLE_HEURISTIC" -> "disable_heur_slist"
      [] opt = "LONGOPT_ENABLE_PROTOCOL"   -> "enable_protocol_slist"

\* The new value of list l holding cur when pointer ptr is passed with opt.
AppendTo(l, opt, cur, ptr) ==
    IF ListOf(opt) = l THEN g_slist_append(cur, ptr) ELSE cur

NameOpts == {"LONGOPT_DISABLE_PROTOCOL", "LONGOPT_ENABLE_PROTOCOL",
             "LONGOPT_ENABLE_HEURISTIC", "LONGOPT_DISABLE_HEURISTIC"}

\* case LONGOPT_DISABLE_PROTOCOL, LONGOPT_ENABLE_HEURISTIC,
\* LONGOPT_DISABLE_HEURISTIC, LONGOPT_ENABLE_PROTOCOL: the caller passes a
\* pointer to an argument of its own, which the list keeps.
HandleOpt_name(opt, arg) ==
    /\ CanDispatch
    /\ opt \in NameOpts
    /\ LET optarg_str_p == Len(mem) + 1
       IN  /\ mem' = Append(mem, arg)
           /\ disable_protocol_slist' =
                AppendTo("disable_protocol_slist", opt, disable_protocol_slist, optarg_str_p)
           /\ enable_heur_slist' =
                AppendTo("enable_heur_slist", opt, enable_heur_slist, optarg_str_p)
           /\ disable_heur_slist' =
                AppendTo("disable_heur_slist", opt, disable_heur_slist, optarg_str_p)
           /\ enable_protocol_slist' =
                AppendTo("enable_protocol_slist", opt, enable_protocol_slist, optarg_str_p)
    /\ hist' = Append(hist, [opt |-> opt, arg |-> CStr(arg)])
    /\ cmd' = Returned(opt, arg, arg, TRUE, <<>>)
    /\ ncalls' = ncalls + 1
    /\ UNCHANGED <<timecfg, seconds_type, registry, napply, aborted>>

\* ws_assert_not_reached() (wsutil/ws_assert.h) reports the failed assertion
\* and aborts, in every build: the value of aborted after it.
ws_assert_not_reached == TRUE

\* A default case that leaves the switch and reaches return TRUE.
HandleOpt_defaultReturns(opt, arg) ==
    /\ CanDispatch
    /\ opt \notin NameOpts \cup {"d", "K", "n", "N", "t", "u"}
    /\ cmd' = Returned(opt, arg, arg, TRUE, <<>>)
    /\ ncalls' = ncalls + 1
    /\ UNCHANGED <<timecfg, lists, seconds_type, registry, napply, aborted>>

\* default: ws_assert_not_reached() ends the process; nothing is returned.
HandleOpt_default(opt, arg) ==
    /\ CanDispatch
    /\ opt \notin NameOpts \cup {"d", "K", "n", "N", "t", "u"}
    /\ aborted' = ws_assert_not_reached
    /\ cmd' = [fn |-> "dissect_opts_handle_opt", opt |-> opt, arg_in |-> arg,
               arg_out |-> arg, returned |-> FALSE, ret |-> FALSE, err |-> <<>>]
    /\ ncalls' = ncalls + 1
    /\ UNCHANGED <<timecfg, lists, seconds_type, registry, napply>>

----------------------------------------------------------------------------
(* setup_enabled_and_disabled_protocols *)

\* Setup freeing each list once it has walked it.
SetupFreesLists ==
    /\ ~aborted
    /\ napply < MaxApply
    /\ \E st \in {SetupResult(disable_protocol_slist, enable_protocol_slist,
                              enable_heur_slist, disable_heur_slist, mem,
                              proto_enabled, heur_enabled)} :
           /\ proto_enabled' = st.proto
           /\ heur_enabled' = st.heur
           /\ reg_calls' = st.calls
           /\ cmd' = [fn |-> "setup_enabled_and_disabled_protocols",
                      opt |-> "", arg_in |-> <<>>, arg_out |-> <<>>,
                      returned |-> TRUE, ret |-> st.success, err |-> st.err]
    /\ napply' = napply + 1
    /\ disable_protocol_slist' = <<>>
    /\ enable_protocol_slist' = <<>>
    /\ enable_heur_slist' = <<>>
    /\ disable_heur_slist' = <<>>
    /\ UNCHANGED <<timecfg, mem, hist, seconds_type, ncalls, aborted>>

Setup ==
    /\ ~aborted
    /\ napply < MaxApply
    /\ \E st \in {SetupResult(disable_protocol_slist, enable_protocol_slist,
                              enable_heur_slist, disable_heur_slist, mem,
                              proto_enabled, heur_enabled)} :
           /\ proto_enabled' = st.proto
           /\ heur_enabled' = st.heur
           /\ reg_calls' = st.calls
           /\ cmd' = [fn |-> "setup_enabled_and_disabled_protocols",
                      opt |-> "", arg_in |-> <<>>, arg_out |-> <<>>,
                      returned |-> TRUE, ret |-> st.success, err |-> st.err]
    /\ napply' = napply + 1
    /\ UNCHANGED <<timecfg, lists, seconds_type, ncalls, aborted>>

----------------------------------------------------------------------------
(* The caller: optarg_str_p points into storage the caller owns and may    *)
(* write between the scan of the command line and the apply phase.         *)

CallerWrite(ptr, str) ==
    /\ ~aborted
    /\ napply = 0
    /\ ptr \in DOMAIN mem
    /\ mem[ptr] # str
    /\ mem' = [mem EXCEPT ![ptr] = str]
    /\ UNCHANGED <<timecfg, disable_protocol_slist, enable_protocol_slist,
                   enable_heur_slist, disable_heur_slist, hist, seconds_type,
                   registry, cmd, ncalls, napply, aborted>>

----------------------------------------------------------------------------
(* Specifications *)

\* A command line scanned flag by flag, then applied.
Next ==
    \/ HandleOpt_d(Opaque)
    \/ HandleOpt_K(Opaque)
    \/ HandleOpt_n
    \/ \E arg \in ResArgs : HandleOpt_N(arg)
    \/ \E arg \in TsArgsSmall : HandleOpt_t(arg)
    \/ \E arg \in SecArgs : HandleOpt_u(arg)
    \/ \E opt \in NameOpts, arg \in Names : HandleOpt_name(opt, arg)
    \/ HandleOpt_default("x", Opaque)
    \/ Setup

Spec == Init /\ [][Next]_vars

\* The -t option alone, over every argument of TsArgs.
NextTs == ncalls < MaxTsCalls /\ \E arg \in TsArgs : HandleOpt_t(arg)

SpecTs == Init /\ [][NextTs]_vars

\* The name options, a caller that rewrites the argument storage it passed,
\* then the apply phase.
NextCaller ==
    \/ ncalls < MaxCallerCalls
          /\ \E opt \in NameOpts, arg \in Names : HandleOpt_name(opt, arg)
    \/ \E ptr \in DOMAIN mem, str \in Names : CallerWrite(ptr, str)
    \/ Setup

SpecCaller == Init /\ [][NextCaller]_vars

\* The -u option with every argument of SecArgsAll, among -t options and a
\* name option that fill the configuration.
NextU ==
    \/ \E arg \in SecArgsAll : HandleOpt_u(arg)
    \/ \E arg \in TsArgsSmall : HandleOpt_t(arg)
    \/ \E opt \in NameOpts : HandleOpt_name(opt, udp)

SpecU == Init /\ [][NextU]_vars

\* The -t option with every argument of TsArgs, among -u, -n and name
\* options.
NextTsMix ==
    /\ ncalls < MaxTsCalls
    /\ \/ \E arg \in TsArgs : HandleOpt_t(arg)
       \/ \E arg \in SecArgs : HandleOpt_u(arg)
       \/ HandleOpt_n
       \/ \E opt \in NameOpts : HandleOpt_name(opt, udp)

SpecTsMix == Init /\ [][NextTsMix]_vars

----------------------------------------------------------------------------
(* The documented grammar of the -t argument and the vocabulary of the     *)
(* properties below.                                                       *)

TsTypes ==
    { <<"r">>, <<"a">>, <<"a", "d">>, <<"a", "d", "o", "y">>, <<"d">>,
      <<"d", "d">>, <<"e">>, <<"u">>, <<"u", "d">>, <<"u", "d", "o", "y">> }

FormatOfType(t) ==
    CASE t = <<"r">> -> "TS_RELATIVE"
      [] t = <<"a">> -> "TS_ABSOLUTE"
      [] t = <<"a", "d">> -> "TS_ABSOLUTE_WITH_YMD"
      [] t = <<"a", "d", "o", "y">> -> "TS_ABSOLUTE_WITH_YDOY"
      [] t = <<"d">> -> "TS_DELTA"
      [] t = <<"d", "d">> -> "TS_DELTA_DIS"
      [] t = <<"e">> -> "TS_EPOCH"
      [] t = <<"u">> -> "TS_UTC"
      [] t = <<"u", "d">> -> "TS_UTC_WITH_YMD"
      [] t = <<"u", "d", "o", "y">> -> "TS_UTC_WITH_YDOY"

PrecDigits == {"0", "1", "2", "3", "6", "9"}

\* PRECISION: absent or one digit.
PrecTokens == {<<>>} \cup {<<c>> : c \in PrecDigits}

PrecOfToken(p) ==
    CASE p = <<>>    -> "TS_PREC_AUTO"
      [] p = <<"0">> -> "TS_PREC_FIXED_SEC"
      [] p = <<"1">> -> "TS_PREC_FIXED_DSEC"
      [] p = <<"2">> -> "TS_PREC_FIXED_CSEC"
      [] p = <<"3">> -> "TS_PREC_FIXED_MSEC"
      [] p = <<"6">> -> "TS_PREC_FIXED_USEC"
      [] p = <<"9">> -> "TS_PREC_FIXED_NSEC"

\* Index of the first dot of a, 0 when it has none.
FirstDot(a) ==
    IF \E i \in 1..Len(a) : a[i] = "."
    THEN CHOOSE i \in 1..Len(a) : a[i] = "." /\ \A j \in 1..(i - 1) : a[j] # "."
    ELSE 0

\* What precedes the first dot; the whole argument when it has no dot.
TypePart(a) == IF FirstDot(a) = 0 THEN a ELSE SubSeq(a, 1, FirstDot(a) - 1)

\* The last call was dissect_opts_handle_opt with option opt, and returned.
Handled(opt) ==
    cmd.fn = "dissect_opts_handle_opt" /\ cmd.opt = opt /\ cmd.returned

\* The last call was setup_enabled_and_disabled_protocols.
AfterSetup == cmd.fn = "setup_enabled_and_disabled_protocols"

\* This step is a dispatcher call.
DispatchStep == ncalls' = ncalls + 1

\* The names of a list, read through its pointers.
Listed(list) == Deref(list, mem)

Occurs(n, seq) == \E i \in 1..Len(seq) : seq[i] = n

Count(n, seq) == Cardinality({i \in 1..Len(seq) : seq[i] = n})

\* Registry calls of function fn for name n made by the last apply.
CallCount(fn, n) ==
    Cardinality({i \in 1..Len(reg_calls) :
                    reg_calls[i].fn = fn /\ reg_calls[i].name = n})

HeurFns == {"proto_enable_heuristic_by_name(TRUE)",
            "proto_enable_heuristic_by_name(FALSE)"}

----------------------------------------------------------------------------
(* Apply phase *)

\* C1: after setup_enabled_and_disabled_protocols, a registered protocol
\* whose name is in both the disable-protocol and the enable-protocol list
\* is enabled, whatever the order and number of the flags that put it there.
C1_EnableAfterDisable ==
    AfterSetup =>
        \A n \in Known :
            (Occurs(n, Listed(disable_protocol_slist))
                /\ Occurs(n, Listed(enable_protocol_slist)))
            => proto_enabled[n]

\* The enable flag came first on the command line, the disable flag after
\* it, and tcp is enabled after the apply.
C1_Witness ==
    /\ AfterSetup
    /\ Len(hist) >= 2
    /\ hist[1] = [opt |-> "LONGOPT_ENABLE_PROTOCOL", arg |-> tcp]
    /\ hist[2] = [opt |-> "LONGOPT_DISABLE_PROTOCOL", arg |-> tcp]
    /\ proto_enabled[tcp]

\* C2: when the enable-heuristic list holds a name the registry does not
\* know, the apply returns failure and still makes one registry call per
\* entry of each of the four lists.
C2_UnknownHeurDoesNotAbort ==
    (AfterSetup /\ \E n \in Names \ Known : Occurs(n, Listed(enable_heur_slist)))
    =>  /\ cmd.ret = FALSE
        /\ \A n \in Names :
            /\ CallCount("proto_disable_proto_by_name", n)
                 = Count(n, Listed(disable_protocol_slist))
            /\ CallCount("proto_enable_proto_by_name", n)
                 = Count(n, Listed(enable_protocol_slist))
            /\ CallCount("proto_enable_heuristic_by_name(TRUE)", n)
                 = Count(n, Listed(enable_heur_slist))
            /\ CallCount("proto_enable_heuristic_by_name(FALSE)", n)
                 = Count(n, Listed(disable_heur_slist))

\* The unknown name is the first enable-heuristic entry, a known one
\* follows it and a disable-heuristic entry follows both; the apply failed
\* and the later names took effect in the registry.
C2_Witness ==
    /\ AfterSetup
    /\ Listed(enable_heur_slist) = <<nope, udp>>
    /\ Listed(disable_heur_slist) = <<tcp>>
    /\ cmd.ret = FALSE
    /\ Len(reg_calls) = 3
    /\ heur_enabled[udp] /\ ~heur_enabled[tcp]

\* C3: the apply returns failure exactly when one of its heuristic registry
\* calls returned false, which is exactly when the enable-heuristic or the
\* disable-heuristic list holds an unknown name; unknown names in the
\* disable-protocol and enable-protocol lists have no part in it.
C3_FailureIffHeurCallFailed ==
    AfterSetup =>
        /\ (cmd.ret = FALSE) <=>
              \E i \in 1..Len(reg_calls) :
                  reg_calls[i].fn \in HeurFns /\ ~reg_calls[i].ret
        /\ (cmd.ret = FALSE) <=>
              \E n \in Names \ Known :
                  \/ Occurs(n, Listed(enable_heur_slist))
                  \/ Occurs(n, Listed(disable_heur_slist))

\* Unknown names in both protocol lists, a known heuristic name, success.
C3_Witness ==
    /\ AfterSetup
    /\ Occurs(nope, Listed(disable_protocol_slist))
    /\ Occurs(nope, Listed(enable_protocol_slist))
    /\ Listed(enable_heur_slist) = <<tcp>>
    /\ cmd.ret = TRUE

----------------------------------------------------------------------------
(* The -t option *)

\* C4: a -t call that returns failure leaves time_format and
\* time_precision as they were, for every configuration before the call
\* and every argument.
C4_FailedTsKeepsConfig ==
    [][(DispatchStep /\ Handled("t")' /\ ~cmd'.ret)
        => (time_format' = time_format /\ time_precision' = time_precision)]_vars

\* "bogus.3" (a good precision after a bad type) failed on a configuration
\* an earlier "a.0" had set.
C4_Witness ==
    /\ Handled("t")
    /\ cmd.arg_in = <<"b", "o", "g", "u", "s", ".", "3">>
    /\ ~cmd.ret
    /\ time_format = "TS_ABSOLUTE"
    /\ time_precision = "TS_PREC_FIXED_SEC"

\* C5 as stated: a -t argument whose first dot is its last character
\* ("a.", ".") makes the call fail.
C5_DotLastFails ==
    (Handled("t") /\ Len(cmd.arg_in) >= 1 /\ FirstDot(cmd.arg_in) = Len(cmd.arg_in))
    => ~cmd.ret

\* C5 amended: a -t argument whose first dot is its last character selects
\* the automatic precision.  With nothing before the dot the call succeeds,
\* sets time_precision to automatic and keeps time_format; with a TYPE before
\* the dot it succeeds and sets time_format to that type's format and
\* time_precision to automatic; with anything else before the dot it fails
\* and changes neither.
C5_DotLastIsAutomatic ==
    [][(DispatchStep /\ Handled("t")' /\ Len(cmd'.arg_in) >= 1
            /\ cmd'.arg_in[Len(cmd'.arg_in)] = "."
            /\ FirstDot(cmd'.arg_in) = Len(cmd'.arg_in))
        => LET t == TypePart(cmd'.arg_in)
           IN  IF t = <<>>
               THEN /\ cmd'.ret
                    /\ time_precision' = "TS_PREC_AUTO"
                    /\ time_format' = time_format
               ELSE IF t \in TsTypes
               THEN /\ cmd'.ret
                    /\ time_precision' = "TS_PREC_AUTO"
                    /\ time_format' = FormatOfType(t)
               ELSE /\ ~cmd'.ret
                    /\ time_precision' = time_precision
                    /\ time_format' = time_format]_vars

\* "a." was accepted and set absolute / automatic over an earlier "e.9".
C5_Witness ==
    /\ Handled("t")
    /\ cmd.arg_in = <<"a", ".">>
    /\ cmd.ret
    /\ ncalls = 2
    /\ time_format = "TS_ABSOLUTE"
    /\ time_precision = "TS_PREC_AUTO"

\* C6: for every TYPE and every PRECISION (absent or one of 0 1 2 3 6 9)
\* the call with argument TYPE.PRECISION succeeds and sets time_format to
\* the format of TYPE and time_precision to the precision of PRECISION.
C6_TypeDotPrecision ==
    \A t \in TsTypes, p \in PrecTokens :
        (Handled("t") /\ cmd.arg_in = t \o <<".">> \o p)
        => /\ cmd.ret
           /\ time_format = FormatOfType(t)
           /\ time_precision = PrecOfToken(p)

\* "adoy.6" over a configuration set by an earlier "d.0".
C6_Witness ==
    /\ Handled("t")
    /\ cmd.arg_in = <<"a", "d", "o", "y", ".", "6">>
    /\ ncalls = 2
    /\ cmd.ret
    /\ time_format = "TS_ABSOLUTE_WITH_YDOY"
    /\ time_precision = "TS_PREC_FIXED_USEC"

\* C7: a precision-only argument, a dot and one digit of 0 1 2 3 6 9,
\* succeeds, sets time_precision to the digit's precision and leaves
\* time_format as it was.
C7_PrecisionOnlyKeepsFormat ==
    [][(DispatchStep /\ Handled("t")' /\ Len(cmd'.arg_in) = 2
            /\ cmd'.arg_in[1] = "." /\ cmd'.arg_in[2] \in PrecDigits)
        => /\ cmd'.ret
           /\ time_precision' = PrecOfToken(<<cmd'.arg_in[2]>>)
           /\ time_format' = time_format]_vars

\* ".0" after "e.3": epoch is kept, the precision is replaced.
C7_Witness ==
    /\ Handled("t")
    /\ cmd.arg_in = <<".", "0">>
    /\ cmd.ret
    /\ time_format = "TS_EPOCH"
    /\ time_precision = "TS_PREC_FIXED_SEC"

\* C8: an argument that is one TYPE and has no dot succeeds, sets
\* time_format to the type's format and leaves time_precision as it was.
C8_TypeOnlyKeepsPrecision ==
    [][(DispatchStep /\ Handled("t")' /\ cmd'.arg_in \in TsTypes)
        => /\ cmd'.ret
           /\ time_format' = FormatOfType(cmd'.arg_in)
           /\ time_precision' = time_precision]_vars

\* "r" after "a.3": the milliseconds precision survives.
C8_Witness ==
    /\ Handled("t")
    /\ cmd.arg_in = <<"r">>
    /\ cmd.ret
    /\ time_format = "TS_RELATIVE"
    /\ time_precision = "TS_PREC_FIXED_MSEC"

\* An argument outside the grammar: a character other than 0 1 2 3 6 9
\* follows the first dot, or more than one character follows it, or what
\* stands before the dot (the whole argument when there is no dot) is
\* neither empty-before-a-dot nor a TYPE.
OutsideGrammar(a) ==
    LET d == FirstDot(a)
    IN  \/ d # 0 /\ Len(a) > d /\ a[d + 1] \notin PrecDigits
        \/ d # 0 /\ Len(a) > d + 1
        \/ (d = 0 \/ TypePart(a) # <<>>) /\ TypePart(a) \notin TsTypes

\* C9: a -t call with an argument outside the grammar returns failure.
C9_OutsideGrammarFails ==
    (Handled("t") /\ OutsideGrammar(cmd.arg_in)) => ~cmd.ret

\* "a.99": a good type and a good digit, but two characters after the dot.
C9_Witness ==
    /\ Handled("t")
    /\ cmd.arg_in = <<"a", ".", "9", "9">>
    /\ ~cmd.ret
    /\ cmd.err # <<>>

----------------------------------------------------------------------------
(* The name lists *)

\* The arguments passed with option opt so far, in call order.
RECURSIVE PassedWith(_, _)
PassedWith(opt, h) ==
    IF h = <<>> THEN <<>>
    ELSE IF Head(h).opt = opt
         THEN <<Head(h).arg>> \o PassedWith(opt, Tail(h))
         ELSE PassedWith(opt, Tail(h))

\* a is the beginning of b.
IsPrefix(a, b) == Len(a) <= Len(b) /\ SubSeq(b, 1, Len(a)) = a

\* C10: each list is the sequence of arguments passed with its own option,
\* in call order, duplicates kept; a name option call succeeds and adds its
\* argument at the end of its own list and nothing to the others; no
\* dispatcher call removes, moves or rewrites an entry.
C10_ListsAreCallHistory ==
    /\ [](/\ Listed(disable_protocol_slist) = PassedWith("LONGOPT_DISABLE_PROTOCOL", hist)
          /\ Listed(enable_protocol_slist) = PassedWith("LONGOPT_ENABLE_PROTOCOL", hist)
          /\ Listed(enable_heur_slist) = PassedWith("LONGOPT_ENABLE_HEURISTIC", hist)
          /\ Listed(disable_heur_slist) = PassedWith("LONGOPT_DISABLE_HEURISTIC", hist))
    /\ [][DispatchStep =>
            /\ IsPrefix(Listed(disable_protocol_slist), Listed(disable_protocol_slist)')
            /\ IsPrefix(Listed(enable_protocol_slist), Listed(enable_protocol_slist)')
            /\ IsPrefix(Listed(enable_heur_slist), Listed(enable_heur_slist)')
            /\ IsPrefix(Listed(disable_heur_slist), Listed(disable_heur_slist)')
            /\ (cmd'.opt \in NameOpts =>
                  /\ cmd'.returned /\ cmd'.ret
                  /\ Len(Listed(disable_protocol_slist)') + Len(Listed(enable_protocol_slist)')
                       + Len(Listed(enable_heur_slist)') + Len(Listed(disable_heur_slist)')
                     = Len(Listed(disable_protocol_slist)) + Len(Listed(enable_protocol_slist))
                       + Len(Listed(enable_heur_slist)) + Len(Listed(disable_heur_slist)) + 1
                  /\ LET own == CASE cmd'.opt = "LONGOPT_DISABLE_PROTOCOL" -> Listed(disable_protocol_slist)'
                               [] cmd'.opt = "LONGOPT_ENABLE_PROTOCOL" -> Listed(enable_protocol_slist)'
                               [] cmd'.opt = "LONGOPT_ENABLE_HEURISTIC" -> Listed(enable_heur_slist)'
                               [] cmd'.opt = "LONGOPT_DISABLE_HEURISTIC" -> Listed(disable_heur_slist)'
                     IN  own # <<>> /\ own[Len(own)] = cmd'.arg_in)
            /\ (cmd'.opt \notin NameOpts =>
                  /\ Listed(disable_protocol_slist)' = Listed(disable_protocol_slist)
                  /\ Listed(enable_protocol_slist)' = Listed(enable_protocol_slist)
                  /\ Listed(enable_heur_slist)' = Listed(enable_heur_slist)
                  /\ Listed(disable_heur_slist)' = Listed(disable_heur_slist))]_vars

\* The same name passed twice with --disable-protocol and a -t call in
\* the same run: the list holds the name twice.
C10_Witness ==
    /\ Listed(disable_protocol_slist) = <<tcp, tcp>>
    /\ Handled("LONGOPT_DISABLE_PROTOCOL")
    /\ time_format = "TS_RELATIVE"
    /\ ncalls = 3

----------------------------------------------------------------------------
(* Ownership of the names *)

\* The registry function the apply phase calls for the entries of opt's list.
RegistryFn(opt) ==
    CASE opt = "LONGOPT_DISABLE_PROTOCOL"  -> "proto_disable_proto_by_name"
      [] opt = "LONGOPT_ENABLE_PROTOCOL"   -> "proto_enable_proto_by_name"
      [] opt = "LONGOPT_ENABLE_HEURISTIC"  -> "proto_enable_heuristic_by_name(TRUE)"
      [] opt = "LONGOPT_DISABLE_HEURISTIC" -> "proto_enable_heuristic_by_name(FALSE)"

\* The names the last apply passed to registry function fn, in call order.
RECURSIVE NamesCalled(_, _)
NamesCalled(fn, calls) ==
    IF calls = <<>> THEN <<>>
    ELSE IF Head(calls).fn = fn
         THEN <<Head(calls).name>> \o NamesCalled(fn, Tail(calls))
         ELSE NamesCalled(fn, Tail(calls))

\* What the storage passed with option opt holds now, in call order: the
\* k-th name call passed the buffer at address k.
RECURSIVE StoredNow(_, _, _)
StoredNow(opt, h, k) ==
    IF h = <<>> THEN <<>>
    ELSE IF Head(h).opt = opt
         THEN <<mem[k]>> \o StoredNow(opt, Tail(h), k + 1)
         ELSE StoredNow(opt, Tail(h), k + 1)

\* The list of option opt.
SlistOf(opt) ==
    CASE opt = "LONGOPT_DISABLE_PROTOCOL"  -> disable_protocol_slist
      [] opt = "LONGOPT_ENABLE_PROTOCOL"   -> enable_protocol_slist
      [] opt = "LONGOPT_ENABLE_HEURISTIC"  -> enable_heur_slist
      [] opt = "LONGOPT_DISABLE_HEURISTIC" -> disable_heur_slist

\* C11 as stated: the names are stored by value; whatever the caller does
\* to its storage afterwards, every list entry and every name the apply
\* passes to the registry is the string given at the time of the call.
C11_StoredByValue ==
    \A opt \in NameOpts :
        /\ Listed(SlistOf(opt)) = PassedWith(opt, hist)
        /\ AfterSetup => NamesCalled(RegistryFn(opt), reg_calls) = PassedWith(opt, hist)

\* C11 amended: the names are stored by reference.  Every list entry is the
\* pointer the caller passed, so it reads as what the caller's storage holds
\* now, and the apply passes to the registry what that storage held when it
\* ran; entry and registry name are the string given at the time of the
\* call exactly as long as the caller has not rewritten that storage.
C11_StoredByReference ==
    \A opt \in NameOpts :
        /\ Listed(SlistOf(opt)) = StoredNow(opt, hist, 1)
        /\ AfterSetup => NamesCalled(RegistryFn(opt), reg_calls) = StoredNow(opt, hist, 1)
        /\ (\A k \in 1..Len(hist) : mem[k] = hist[k].arg)
              => Listed(SlistOf(opt)) = PassedWith(opt, hist)

\* --disable-protocol was given tcp twice, the caller then overwrote the
\* second argument with udp, and the apply disabled tcp and udp.
C11_Witness ==
    /\ AfterSetup
    /\ Len(hist) = 2
    /\ hist[1] = [opt |-> "LONGOPT_DISABLE_PROTOCOL", arg |-> tcp]
    /\ hist[2] = [opt |-> "LONGOPT_DISABLE_PROTOCOL", arg |-> tcp]
    /\ mem[2] = udp
    /\ NamesCalled("proto_disable_proto_by_name", reg_calls) = <<tcp, udp>>

----------------------------------------------------------------------------
(* The unrecognised option code *)

\* The option codes the switch has a case for.
Recognised == NameOpts \cup {"d", "K", "n", "N", "t", "u"}

\* C12: a dispatcher call with an option code outside the recognised ones
\* ends the process: the call does not return, neither with success nor
\* with failure, the Configuration State is what it was before the call,
\* and nothing runs after it.
C12_UnrecognisedAborts ==
    [][/\ ~aborted
       /\ (DispatchStep /\ cmd'.opt \notin Recognised) =>
             /\ aborted'
             /\ ~cmd'.returned
             /\ UNCHANGED <<timecfg, disable_protocol_slist, enable_protocol_slist,
                            enable_heur_slist, disable_heur_slist, mem>>
       /\ (DispatchStep /\ cmd'.opt \in Recognised) => cmd'.returned /\ ~aborted']_vars

\* The process aborted at the third call, with a time format and a name
\* already configured.
C12_Witness ==
    /\ aborted
    /\ ~cmd.returned
    /\ cmd.opt \notin Recognised
    /\ ncalls = 3
    /\ time_format = "TS_RELATIVE"
    /\ Listed(enable_heur_slist) = <<udp>>

----------------------------------------------------------------------------
(* Applying twice *)

\* This step is a call of setup_enabled_and_disabled_protocols.
SetupStep == napply' = napply + 1

\* C13: an apply that follows an apply, the configuration and the set of
\* known names being the same for both, returns what the first returned.
C13_SecondApplySameResult ==
    [][(AfterSetup /\ SetupStep) =>
          /\ cmd'.ret = cmd.ret
          /\ cmd'.err = cmd.err]_vars

\* Two applies, both failed on the unknown name, with a known name disabled
\* by the first and found disabled by the second.
C13_Witness ==
    /\ AfterSetup
    /\ napply = 2
    /\ ~cmd.ret
    /\ Listed(disable_heur_slist) = <<tcp, nope>>

\* Two applies that both succeeded.
C13_WitnessSuccess ==
    /\ AfterSetup
    /\ napply = 2
    /\ cmd.ret
    /\ Listed(disable_heur_slist) = <<tcp>>
    /\ Listed(enable_heur_slist) = <<udp>>

----------------------------------------------------------------------------
(* The seconds type *)

\* C14: a -u call succeeds exactly when its argument is "s", which selects
\* the default seconds type, or "hms", which selects hours, minutes and
\* seconds; with any other argument it fails and sets no seconds type.
\* Either way time_format, time_precision and the four lists are what they
\* were before the call.
C14_SecondsTypeExact ==
    [][(DispatchStep /\ cmd'.opt = "u") =>
          /\ cmd'.returned
          /\ cmd'.ret <=> cmd'.arg_in \in {<<"s">>, <<"h", "m", "s">>}
          /\ seconds_type' =
                IF cmd'.arg_in = <<"s">> THEN "TS_SECONDS_DEFAULT"
                ELSE IF cmd'.arg_in = <<"h", "m", "s">> THEN "TS_SECONDS_HOUR_MIN_SEC"
                ELSE seconds_type
          /\ UNCHANGED <<timecfg, disable_protocol_slist, enable_protocol_slist,
                         enable_heur_slist, disable_heur_slist, mem>>]_vars

\* -t r, then -u hms, then a failed -u hmsx: the seconds type and the time
\* format are those of the first two calls.
C14_Witness ==
    /\ Handled("u")
    /\ ~cmd.ret
    /\ cmd.arg_in = <<"h", "m", "s", "x">>
    /\ seconds_type = "TS_SECONDS_HOUR_MIN_SEC"
    /\ time_format = "TS_RELATIVE"

----------------------------------------------------------------------------
(* The order of the registry calls *)

\* One call of fn per name, in the order of names.
CallsOf(fn, names) == [i \in 1..Len(names) |-> <<fn, names[i]>>]

\* The function and the name of each registry call of the last apply.
CallsMade == [i \in 1..Len(reg_calls) |-> <<reg_calls[i].fn, reg_calls[i].name>>]

\* C15: an apply calls the registry in a fixed order: the disable-protocol
\* list first, then the enable-protocol list, then the enable-heuristic
\* list, then the disable-heuristic list, each list in the order its names
\* were given, one call per entry, a name given twice being called twice.
C15_RegistryCallOrder ==
    AfterSetup =>
        CallsMade =
            CallsOf("proto_disable_proto_by_name",
                    PassedWith("LONGOPT_DISABLE_PROTOCOL", hist))
         \o CallsOf("proto_enable_proto_by_name",
                    PassedWith("LONGOPT_ENABLE_PROTOCOL", hist))
         \o CallsOf("proto_enable_heuristic_by_name(TRUE)",
                    PassedWith("LONGOPT_ENABLE_HEURISTIC", hist))
         \o CallsOf("proto_enable_heuristic_by_name(FALSE)",
                    PassedWith("LONGOPT_DISABLE_HEURISTIC", hist))

\* --disable-heuristic came first on the command line and --enable-protocol
\* twice after it, with tcp then udp: the apply enabled tcp, then udp, and
\* disabled the heuristics last.
C15_Witness ==
    /\ AfterSetup
    /\ Len(hist) = 3
    /\ hist[1] = [opt |-> "LONGOPT_DISABLE_HEURISTIC", arg |-> tcp]
    /\ hist[2] = [opt |-> "LONGOPT_ENABLE_PROTOCOL", arg |-> tcp]
    /\ hist[3] = [opt |-> "LONGOPT_ENABLE_PROTOCOL", arg |-> udp]
    /\ CallsMade = << <<"proto_enable_proto_by_name", tcp>>,
                      <<"proto_enable_proto_by_name", udp>>,
                      <<"proto_enable_heuristic_by_name(FALSE)", tcp>> >>

\* A name given twice to one option is called twice.
C15_WitnessDuplicate ==
    /\ AfterSetup
    /\ PassedWith("LONGOPT_ENABLE_HEURISTIC", hist) = <<udp, udp>>
    /\ Len(reg_calls) = 2

----------------------------------------------------------------------------
(* The error text and the argument buffer of a -t call *)

\* C16: whenever a -t call fails, the argument its error message cites is
\* the whole argument as the caller gave it, the dot and what follows it
\* included.
C16_ErrorCitesWholeArgument ==
    (Handled("t") /\ ~cmd.ret) =>
        /\ Len(cmd.err) = 1
        /\ cmd.err[1].arg = cmd.arg_in

\* "xyz.3" failed on its type, after the dot had been masked, and the
\* error cites "xyz.3".
C16_Witness ==
    /\ Handled("t")
    /\ ~cmd.ret
    /\ cmd.arg_in = <<"x", "y", "z", ".", "3">>
    /\ cmd.err[1].msg = "Invalid time stamp type"
    /\ cmd.err[1].arg = <<"x", "y", "z", ".", "3">>

\* C20: on return from a -t call, successful or failed, the caller's buffer
\* holds the characters it held on entry: the dot the parser masked is back
\* on every path out of the case.
C20_BufferRestored ==
    Handled("t") => cmd.arg_out = cmd.arg_in

\* A successful call that masked the dot and a failed call that masked the
\* dot have both returned, the second with its buffer as given.
C20_Witness ==
    /\ Handled("t")
    /\ ~cmd.ret
    /\ ncalls = 2
    /\ time_format = "TS_ABSOLUTE"
    /\ time_precision = "TS_PREC_FIXED_MSEC"
    /\ cmd.err[1].msg = "Invalid time stamp type"
    /\ FirstDot(cmd.arg_in) # 0
    /\ cmd.arg_out = cmd.arg_in

----------------------------------------------------------------------------
(* The apply phase reads the configuration *)

\* C17: an apply, successful or failed, leaves the Configuration State as
\* it found it: time_format, time_precision, and the names of the four
\* lists with their order.
C17_ApplyKeepsConfiguration ==
    [][SetupStep =>
          /\ UNCHANGED <<time_format, time_precision>>
          /\ UNCHANGED <<disable_protocol_slist, enable_protocol_slist,
                         enable_heur_slist, disable_heur_slist, mem>>
          /\ Listed(disable_protocol_slist)' = Listed(disable_protocol_slist)
          /\ Listed(enable_protocol_slist)' = Listed(enable_protocol_slist)
          /\ Listed(enable_heur_slist)' = Listed(enable_heur_slist)
          /\ Listed(disable_heur_slist)' = Listed(disable_heur_slist)]_vars

\* A failed apply has run on a configuration with a time format and two
\* names, and the registry has changed.
C17_Witness ==
    /\ AfterSetup
    /\ ~cmd.ret
    /\ time_format = "TS_RELATIVE"
    /\ Listed(disable_protocol_slist) = <<tcp>>
    /\ Listed(enable_heur_slist) = <<nope>>
    /\ ~proto_enabled[tcp]

\* A successful apply has run on a configuration with a time format, a
\* time precision and a name.
C17_WitnessSuccess ==
    /\ AfterSetup
    /\ cmd.ret
    /\ time_format = "TS_ABSOLUTE"
    /\ time_precision = "TS_PREC_FIXED_MSEC"
    /\ Listed(enable_protocol_slist) = <<udp>>
    /\ proto_enabled[udp]

----------------------------------------------------------------------------
(* The configuration after a sequence of calls *)

\* This step is a -t call that returned success.
TsSuccessStep == DispatchStep /\ cmd'.opt = "t" /\ cmd'.ret

\* C18: after any sequence of calls since initialisation, time_format is
\* the format of the last successful -t call whose argument has a TYPE
\* before the dot, unset when there was none, and time_precision is the
\* precision of the last successful -t call whose argument has a dot, unset
\* when there was none.  Stated step by step: both start unset; a
\* successful -t call with a TYPE sets time_format to the format of that
\* TYPE, a successful -t call with a dot sets time_precision to the
\* precision after that dot; every other step, a failed -t call and a call
\* with another option code included, leaves the field as it was.
C18_LastSuccessfulCallWins ==
    /\ time_format = "TS_NOT_SET"
    /\ time_precision = "TS_PREC_NOT_SET"
    /\ [][IF TsSuccessStep
          THEN \E d \in {FirstDot(cmd'.arg_in)} :
                 /\ \E type \in {SubSeq(cmd'.arg_in, 1, IF d = 0 THEN Len(cmd'.arg_in) ELSE d - 1)} :
                       IF type # <<>>
                       THEN /\ type \in TsTypes
                            /\ time_format' = FormatOfType(type)
                       ELSE time_format' = time_format
                 /\ IF d # 0
                    THEN \E prec \in {SubSeq(cmd'.arg_in, d + 1, Len(cmd'.arg_in))} :
                            /\ prec \in PrecTokens
                            /\ time_precision' = PrecOfToken(prec)
                    ELSE time_precision' = time_precision
          ELSE UNCHANGED <<time_format, time_precision>>]_vars

\* "ud.6" succeeded, then "bogus.3" failed: the format and the precision
\* are those of "ud.6".
C18_Witness ==
    /\ Handled("t")
    /\ ~cmd.ret
    /\ cmd.arg_in = <<"b", "o", "g", "u", "s", ".", "3">>
    /\ time_format = "TS_UTC_WITH_YMD"
    /\ time_precision = "TS_PREC_FIXED_USEC"

\* "a.3" succeeded, then "r" succeeded: the format is that of the later
\* call, the precision that of the only call with a dot.
C18_WitnessLaterWins ==
    /\ Handled("t")
    /\ cmd.ret
    /\ cmd.arg_in = <<"r">>
    /\ ncalls = 2
    /\ time_format = "TS_RELATIVE"
    /\ time_precision = "TS_PREC_FIXED_MSEC"

\* A -u call after a successful "a.3".
C18_WitnessOtherOption ==
    /\ Handled("u")
    /\ ncalls = 2
    /\ time_format = "TS_ABSOLUTE"
    /\ time_precision = "TS_PREC_FIXED_MSEC"

----------------------------------------------------------------------------
(* A name in both heuristic lists *)

\* Every name of the two heuristic lists is a known one.
HeurNamesKnown ==
    \A n \in Names :
        (Occurs(n, Listed(enable_heur_slist)) \/ Occurs(n, Listed(disable_heur_slist)))
            => n \in Known

\* C19: a known name given to both --enable-heuristic and
\* --disable-heuristic has its heuristics disabled after the apply, in
\* whichever order the two options stood on the command line; and an apply
\* whose heuristic names are all known succeeds, such a conflict or not.
C19_DisableHeuristicWins ==
    AfterSetup =>
        /\ \A n \in Known :
              (Occurs(n, Listed(enable_heur_slist)) /\ Occurs(n, Listed(disable_heur_slist)))
                 => ~heur_enabled[n]
        /\ HeurNamesKnown => cmd.ret

\* --disable-heuristic udp stood before --enable-heuristic udp; the apply
\* enabled the heuristics of udp, then disabled them, and succeeded.
C19_Witness ==
    /\ AfterSetup
    /\ Len(hist) = 2
    /\ hist[1] = [opt |-> "LONGOPT_DISABLE_HEURISTIC", arg |-> udp]
    /\ hist[2] = [opt |-> "LONGOPT_ENABLE_HEURISTIC", arg |-> udp]
    /\ CallsMade = << <<"proto_enable_heuristic_by_name(TRUE)", udp>>,
                      <<"proto_enable_heuristic_by_name(FALSE)", udp>> >>
    /\ ~heur_enabled[udp]
    /\ cmd.ret

\* The same two options in the other order.
C19_WitnessOtherOrder ==
    /\ AfterSetup
    /\ Len(hist) = 2
    /\ hist[1] = [opt |-> "LONGOPT_ENABLE_HEURISTIC", arg |-> tcp]
    /\ hist[2] = [opt |-> "LONGOPT_DISABLE_HEURISTIC", arg |-> tcp]
    /\ ~heur_enabled[tcp]
    /\ cmd.ret

====
